---- MODULE Spec2Model ----
(***************************************************************************)
(* A model of App.py: the Streamlit resume-screening script.               *)
(*                                                                         *)
(* A text is a sequence of characters; a character is a one-character      *)
(* string.  Two characters that a TLA+ string literal cannot hold are      *)
(* written by their code point: "U+0060" is the backtick and "U+00E9" is   *)
(* a non-ASCII letter (e with acute accent).                               *)
(***************************************************************************)
EXTENDS Integers, Sequences, FiniteSets, TLC

VARIABLES
    arg,            \* pure-function harness: the text handed to the function
    ret,            \* pure-function harness: what the function returned
    op,             \* pure-function harness: the function applied so far
    reBuild,        \* how the interpreter's re module reads a doubled "+"
    disk,           \* the artifact files present in models/
    runs,           \* script runs started by this process
    pc,             \* position of the current script run
    models,         \* module globals of lines 20-23: artifact -> loaded?
    loads,          \* artifact -> number of pickle.load reads in this process
    widget,         \* the file held by the uploader widget (browser side)
    uploaded_file,  \* module global of line 128
    text,           \* module global of lines 133/135
    resume_text,    \* local of predict_category / recommend_job
    calls,          \* the prediction and extractor calls made, with argument
    errors,         \* st.error messages of the current run
    warnings,       \* st.warning messages of the current run
    rendered,       \* names of the result fields the current run has rendered
    exc             \* the exception that ended the current run or call, if any

vars == <<arg, ret, op, reBuild, disk, runs, pc, models, loads, widget,
          uploaded_file, text, resume_text, calls, errors, warnings,
          rendered, exc>>

pipelineVars == <<disk, runs, pc, models, loads, widget, uploaded_file, text,
                  resume_text, calls, errors, warnings, rendered>>

-----------------------------------------------------------------------------
(* Bounds of the model                                                     *)

\* pieces concatenated to build an input text of a pure function
MaxPieces == 3
\* script runs (page renders) of one process
MaxRuns == 2
\* characters of an uploaded document
MaxDocLen == 2

-----------------------------------------------------------------------------
(* Characters                                                              *)

None == "None"

Backtick == "U+0060"
EAcute == "U+00E9"

UpperCase == <<"A","B","C","D","E","F","G","H","I","J","K","L","M",
               "N","O","P","Q","R","S","T","U","V","W","X","Y","Z">>
LowerCase == <<"a","b","c","d","e","f","g","h","i","j","k","l","m",
               "n","o","p","q","r","s","t","u","v","w","x","y","z">>
Digits == {"0","1","2","3","4","5","6","7","8","9"}

Range(s) == {s[i] : i \in 1..Len(s)}

\* string.punctuation as spelled out in line 33
Punctuation == {"!", "\"", "#", "$", "%", "&", "'", "(", ")", "*", "+", ",",
                "-", ".", "/", ":", ";", "<", "=", ">", "?", "@", "[", "\\",
                "]", "^", "_", Backtick, "{", "|", "}", "~"}

\* what \s matches and str.strip() removes, among the characters modelled
Whitespace == {" ", "\t", "\n", "\r", "\f"}

\* the characters \x00-\x7f of line 34, among the characters modelled
Ascii == Range(UpperCase) \cup Range(LowerCase) \cup Digits
            \cup Punctuation \cup Whitespace

\* what \w matches (\b is a change of \w-ness)
IsWordChar(c) ==
    c \in Range(UpperCase) \cup Range(LowerCase) \cup Digits \cup {"_", EAcute}

\* str.lower() on one character
LowerChar(c) ==
    IF \E i \in 1..26 : UpperCase[i] = c
    THEN LowerCase[CHOOSE i \in 1..26 : UpperCase[i] = c]
    ELSE c

\* str.lower()
lower(s) == [i \in 1..Len(s) |-> LowerChar(s[i])]

-----------------------------------------------------------------------------
(* cleanResume, lines 28-36                                                *)

\* length of the maximal run of non-whitespace characters starting at i (\S+)
RECURSIVE NonSpaceRun(_, _)
NonSpaceRun(txt, i) ==
    IF i > Len(txt) \/ txt[i] \in Whitespace THEN 0
    ELSE 1 + NonSpaceRun(txt, i + 1)

\* length of the maximal run of whitespace characters starting at i (\s+)
RECURSIVE SpaceRun(_, _)
SpaceRun(txt, i) ==
    IF i > Len(txt) \/ txt[i] \notin Whitespace THEN 0
    ELSE 1 + SpaceRun(txt, i + 1)

\* txt has the literal lit at position i
HasAt(txt, i, lit) ==
    /\ i + Len(lit) - 1 <= Len(txt)
    /\ \A j \in 1..Len(lit) : txt[i + j - 1] = lit[j]

\* Length of the match of one of the seven patterns at position i, 0 when the
\* pattern does not match there.  \S+ is greedy: it takes the whole run, and
\* giving characters back never helps a following \s, which needs the
\* character after the run to be whitespace.
MatchLen(rule, txt, i) ==
    CASE rule = "url" ->        \* http\S+\s
            LET r == NonSpaceRun(txt, i + 4) IN
            IF HasAt(txt, i, <<"h","t","t","p">>) /\ r >= 1 /\ i + 4 + r <= Len(txt)
            THEN 4 + r + 1 ELSE 0
      [] rule = "rtcc" ->       \* RT|cc
            IF HasAt(txt, i, <<"R","T">>) \/ HasAt(txt, i, <<"c","c">>)
            THEN 2 ELSE 0
      [] rule = "hashtag" ->    \* #\S+\s
            LET r == NonSpaceRun(txt, i + 1) IN
            IF txt[i] = "#" /\ r >= 1 /\ i + 1 + r <= Len(txt)
            THEN 1 + r + 1 ELSE 0
      [] rule = "mention" ->    \* @\S+
            LET r == NonSpaceRun(txt, i + 1) IN
            IF txt[i] = "@" /\ r >= 1 THEN 1 + r ELSE 0
      [] rule = "punct" ->      \* [!"#$%&'()*+,-./:;<=>?@[\]^_`{|}~]
            IF txt[i] \in Punctuation THEN 1 ELSE 0
      [] rule = "nonascii" ->   \* [^\x00-\x7f]
            IF txt[i] \notin Ascii THEN 1 ELSE 0
      [] rule = "space" ->      \* \s+
            SpaceRun(txt, i)

\* re.sub(pattern, ' ', txt): the leftmost matches, left to right, without
\* overlap, each replaced by one space
RECURSIVE SubFrom(_, _, _)
SubFrom(rule, txt, i) ==
    IF i > Len(txt) THEN <<>>
    ELSE LET m == MatchLen(rule, txt, i) IN
         IF m > 0 THEN <<" ">> \o SubFrom(rule, txt, i + m)
         ELSE <<txt[i]>> \o SubFrom(rule, txt, i + 1)

sub(rule, txt) == SubFrom(rule, txt, 1)

\* cleanResume without the whitespace collapse of line 35
cleanResume_no_collapse(txt) ==
    sub("nonascii", sub("punct", sub("mention", sub("hashtag",
        sub("rtcc", sub("url", txt))))))

cleanResume(txt) ==
    LET t1 == sub("url", txt)
        t2 == sub("rtcc", t1)
        t3 == sub("hashtag", t2)
        t4 == sub("mention", t3)
        t5 == sub("punct", t4)
        t6 == sub("nonascii", t5)
    IN  sub("space", t6)

-----------------------------------------------------------------------------
(* Input texts of the pure functions: concatenations of pieces             *)

RECURSIVE Concats(_, _)
Concats(pieces, n) ==
    IF n = 0 THEN {<<>>}
    ELSE LET shorter == Concats(pieces, n - 1) IN
         shorter \cup {s \o p : s \in shorter, p \in pieces}

CleanPieces == {<<"h","t","t","p">>, <<"R">>, <<"T">>, <<"c">>, <<"#">>,
                <<"@">>, <<".">>, <<" ">>, <<"\n">>, <<"a">>, <<EAcute>>}

CleanTexts == Concats(CleanPieces, MaxPieces)

-----------------------------------------------------------------------------
(* extract_skills, lines 56-61                                             *)

NotFound == <<"N","o","t"," ","f","o","u","n","d">>

skill_list == <<
    <<"P","y","t","h","o","n">>,
    <<"M","a","c","h","i","n","e"," ","L","e","a","r","n","i","n","g">>,
    <<"D","e","e","p"," ","L","e","a","r","n","i","n","g">>,
    <<"S","Q","L">>,
    <<"P","a","n","d","a","s">>,
    <<"N","u","m","P","y">>,
    <<"S","c","i","k","i","t","-","l","e","a","r","n">>,
    <<"T","e","n","s","o","r","F","l","o","w">>,
    <<"T","a","b","l","e","a","u">>,
    <<"P","o","w","e","r"," ","B","I">>,
    <<"E","x","c","e","l">>,
    <<"J","a","v","a">>,
    <<"C","+","+">>,
    <<"F","l","a","s","k">>,
    <<"D","j","a","n","g","o">>,
    <<"R","E","S","T"," ","A","P","I">>,
    <<"D","o","c","k","e","r">>,
    <<"K","u","b","e","r","n","e","t","e","s">>>>

\* The two ways an interpreter's re module reads "C++": from Python 3.11 a
\* doubled "+" is the possessive quantifier; before 3.11 it is the error
\* "multiple repeat".  The repository pins no interpreter version.
ReBuilds == {"possessive", "multiple repeat"}

ReError == "re.error: multiple repeat"

\* number of "+" characters of the pattern starting at position i
RECURSIVE PlusRun(_, _)
PlusRun(pattern, i) ==
    IF i > Len(pattern) \/ pattern[i] # "+" THEN 0
    ELSE 1 + PlusRun(pattern, i + 1)

\* re's parse of the skill as it stands between the two \b of line 60, the
\* skill being pasted into the pattern unescaped: a sequence of atoms, each a
\* character with its quantifier, unless re.error is raised.  "+" is the only
\* character of skill_list that re reads as other than itself.
RECURSIVE ParseFrom(_, _, _)
ParseFrom(build, pattern, i) ==
    IF i > Len(pattern) THEN [raised |-> FALSE, atoms |-> <<>>]
    ELSE LET k == PlusRun(pattern, i + 1)
             rest == ParseFrom(build, pattern, i + 1 + k)
             q == CASE k = 0 -> "one"
                    [] k = 1 -> "greedy"
                    [] k = 2 /\ build = "possessive" -> "possessive"
                    [] OTHER -> ReError
         IN  IF pattern[i] = "+" \/ q = ReError \/ rest.raised
             THEN [raised |-> TRUE, atoms |-> <<>>]
             ELSE [raised |-> FALSE,
                   atoms |-> <<[ch |-> pattern[i], q |-> q]>> \o rest.atoms]

\* length of the maximal run, from position pos, of the character ch, compared
\* as re.IGNORECASE compares
RECURSIVE CharRun(_, _, _)
CharRun(txt, pos, ch) ==
    IF pos > Len(txt) \/ LowerChar(txt[pos]) # LowerChar(ch) THEN 0
    ELSE 1 + CharRun(txt, pos + 1, ch)

\* the positions at which a match of atoms[k..], begun at pos, can end (the
\* position after the last character matched), backtracking included
RECURSIVE MatchEnds(_, _, _, _)
MatchEnds(atoms, k, txt, pos) ==
    IF k > Len(atoms) THEN {pos}
    ELSE LET run == CharRun(txt, pos, atoms[k].ch) IN
         CASE atoms[k].q = "one" ->
                IF run >= 1 THEN MatchEnds(atoms, k + 1, txt, pos + 1) ELSE {}
           [] atoms[k].q = "greedy" ->
                UNION {MatchEnds(atoms, k + 1, txt, pos + n) : n \in 1..run}
           [] atoms[k].q = "possessive" ->
                IF run >= 1 THEN MatchEnds(atoms, k + 1, txt, pos + run) ELSE {}

\* \b between the characters pos-1 and pos
WordBoundary(txt, pos) ==
    LET before == pos - 1 >= 1 /\ pos - 1 <= Len(txt) /\ IsWordChar(txt[pos - 1])
        after == pos >= 1 /\ pos <= Len(txt) /\ IsWordChar(txt[pos])
    IN  before # after

\* re.search(r'\b{}\b'.format(skill), text, re.IGNORECASE) is not None
search(atoms, txt) ==
    \E start \in 1..(Len(txt) + 1) :
        /\ WordBoundary(txt, start)
        /\ \E end \in MatchEnds(atoms, 1, txt, start) : WordBoundary(txt, end)

\* The value returned, or the exception raised: the comprehension compiles
\* the pattern of every skill, whatever the text.
extract_skills(build, txt) ==
    LET compiled == [i \in 1..Len(skill_list) |-> ParseFrom(build, skill_list[i], 1)]
        found(i) == search(compiled[i].atoms, txt)
        hit == {i \in 1..Len(skill_list) : found(i)}
        RECURSIVE Pick(_)
        Pick(i) == IF i > Len(skill_list) THEN <<>>
                   ELSE (IF i \in hit THEN <<skill_list[i]>> ELSE <<>>) \o Pick(i + 1)
    IN  IF \E i \in 1..Len(skill_list) : compiled[i].raised
        THEN [raised |-> ReError, value |-> <<>>]
        ELSE [raised |-> None,
              value |-> IF hit = {} THEN <<NotFound>> ELSE Pick(1)]

-----------------------------------------------------------------------------
(* extract_education, lines 63-67                                          *)

edu_keywords == <<
    <<"B",".","T","e","c","h">>,
    <<"B","a","c","h","e","l","o","r">>,
    <<"M",".","T","e","c","h">>,
    <<"M","a","s","t","e","r">>,
    <<"P","h","D">>,
    <<"M","S","c">>,
    <<"B","S","c">>>>

\* text.split('\n'), from position i with the line begun so far
RECURSIVE SplitFrom(_, _, _)
SplitFrom(txt, i, line) ==
    IF i > Len(txt) THEN <<line>>
    ELSE IF txt[i] = "\n" THEN <<line>> \o SplitFrom(txt, i + 1, <<>>)
    ELSE SplitFrom(txt, i + 1, Append(line, txt[i]))

split(txt) == SplitFrom(txt, 1, <<>>)

\* str.strip()
strip(s) ==
    LET lead == SpaceRun(s, 1)
        keep == {i \in 1..Len(s) : s[i] \notin Whitespace}
        last == IF keep = {} THEN 0 ELSE CHOOSE i \in keep : \A j \in keep : j <= i
    IN  IF keep = {} THEN <<>> ELSE SubSeq(s, lead + 1, last)

\* needle in hay
contains(hay, needle) ==
    \E i \in 1..(Len(hay) - Len(needle) + 1) :
        SubSeq(hay, i, i + Len(needle) - 1) = needle

\* extract_education comparing the keywords with the line as written
extract_education_case_sensitive(txt) ==
    LET lines == split(txt)
        keep(line) == \E k \in 1..Len(edu_keywords) :
                          contains(line, edu_keywords[k])
        RECURSIVE Pick(_)
        Pick(i) == IF i > Len(lines) THEN <<>>
                   ELSE (IF keep(lines[i]) THEN <<strip(lines[i])>> ELSE <<>>)
                        \o Pick(i + 1)
        education == Pick(1)
    IN  IF education = <<>> THEN <<NotFound>> ELSE education

extract_education(txt) ==
    LET lines == split(txt)
        keep(line) == \E k \in 1..Len(edu_keywords) :
                          contains(lower(line), lower(edu_keywords[k]))
        RECURSIVE Pick(_)
        Pick(i) == IF i > Len(lines) THEN <<>>
                   ELSE (IF keep(lines[i]) THEN <<strip(lines[i])>> ELSE <<>>)
                        \o Pick(i + 1)
        education == Pick(1)
    IN  IF education = <<>> THEN <<NotFound>> ELSE education

-----------------------------------------------------------------------------
(* Pure-function harness: an input text is drawn, the function applied     *)

SkillPieces == {<<"p","y","t","h","o","n">>, <<"J","a","v","a">>,
                <<"S","Q","L">>,
                <<"S","c","i","k","i","t","-","l","e","a","r","n">>,
                <<"C">>, <<"+">>, <<" ">>, <<"a">>, <<",">>}

EduPieces == {<<"B",".","T","e","c","h">>, <<"p","h","d">>, <<"x">>,
              <<" ">>, <<"\n">>, <<"\t">>}

SkillTexts == Concats(SkillPieces, MaxPieces)
EduTexts == Concats(EduPieces, MaxPieces)

\* a name no text holds: the value of a variable not yet assigned
Unassigned == <<"unassigned">>

\* st.file_uploader returned None
NoFile == [name |-> <<>>, readable |-> FALSE, content |-> <<>>]

\* the script is not running in the harness specifications
PipelineIdle ==
    /\ disk = {} /\ runs = 0 /\ pc = "idle"
    /\ models = {} /\ loads = <<>>
    /\ widget = NoFile /\ uploaded_file = NoFile /\ text = Unassigned
    /\ resume_text = Unassigned /\ calls = <<>> /\ errors = <<>>
    /\ warnings = <<>> /\ rendered = <<>>

InitClean ==
    /\ arg \in CleanTexts /\ ret = Unassigned /\ op = "none" /\ exc = None
    /\ reBuild = "possessive" /\ PipelineIdle

ApplyCleanResume ==
    /\ op = "none"
    /\ ret' = cleanResume(arg)
    /\ op' = "cleanResume"
    /\ UNCHANGED <<arg, exc, reBuild, pipelineVars>>

\* the output of the first pass is normalized again
ReapplyCleanResume ==
    /\ op = "cleanResume"
    /\ arg' = ret
    /\ ret' = cleanResume(ret)
    /\ op' = "cleanResume.cleanResume"
    /\ UNCHANGED <<exc, reBuild, pipelineVars>>

NextClean == ApplyCleanResume \/ ReapplyCleanResume

SpecClean == InitClean /\ [][NextClean]_vars

InitSkills ==
    /\ arg \in SkillTexts /\ ret = <<>> /\ op = "none" /\ exc = None
    /\ reBuild \in ReBuilds /\ PipelineIdle

ApplyExtractSkills ==
    /\ op = "none"
    /\ LET r == extract_skills(reBuild, arg) IN
          /\ ret' = r.value
          /\ exc' = r.raised
    /\ op' = "extract_skills"
    /\ UNCHANGED <<arg, reBuild, pipelineVars>>

NextSkills == ApplyExtractSkills

SpecSkills == InitSkills /\ [][NextSkills]_vars

InitEdu ==
    /\ arg \in EduTexts /\ ret = <<>> /\ op = "none" /\ exc = None
    /\ reBuild = "possessive" /\ PipelineIdle

ApplyExtractEducation ==
    /\ op = "none"
    /\ ret' = extract_education(arg)
    /\ op' = "extract_education"
    /\ UNCHANGED <<arg, exc, reBuild, pipelineVars>>

NextEdu == ApplyExtractEducation

SpecEdu == InitEdu /\ [][NextEdu]_vars

-----------------------------------------------------------------------------
(* The script: one run per page load or upload, lines 20-23 and 128-158    *)

\* the file names of lines 20-23, in the order they are loaded
artifact_files == <<"rf_pipeline_categorization.pkl",
                    "tfidf_vectorizer_categorization.pkl",
                    "rf_classifier_job_recommendation.pkl",
                    "tfidf_vectorizer_job_recommendation.pkl">>

Artifacts == Range(artifact_files)

LoadPc == <<"load1", "load2", "load3", "load4">>

\* a run has ended: the script ran to its end, st.stop() was called, or an
\* exception left the script
Ended == {"done", "stopped", "aborted"}

DocChars == {"\n", "a", "."}

RECURSIVE SeqsUpTo(_, _)
SeqsUpTo(chars, n) ==
    IF n = 0 THEN {<<>>}
    ELSE LET shorter == SeqsUpTo(chars, n - 1) IN
         shorter \cup {Append(d, c) : d \in shorter, c \in chars}

Docs == SeqsUpTo(DocChars, MaxDocLen)

FileNames == {<<"r",".","p","d","f">>, <<"r",".","P","D","F">>,
              <<"r",".","t","x","t">>}

\* An upload the uploader lets through.  readable: extract_text (for a PDF)
\* or decode('utf-8') (otherwise) returns content rather than raising.
Files == [name : FileNames, readable : {TRUE}, content : Docs]
            \cup [name : FileNames, readable : {FALSE}, content : {<<>>}]

\* str.endswith
endswith(s, suffix) ==
    /\ Len(s) >= Len(suffix)
    /\ SubSeq(s, Len(s) - Len(suffix) + 1, Len(s)) = suffix

HarnessIdle == arg = <<>> /\ ret = <<>> /\ op = "none"

Init ==
    /\ HarnessIdle
    /\ reBuild \in ReBuilds
    /\ disk \in SUBSET Artifacts
    /\ runs = 0 /\ pc = "idle"
    /\ models = {}
    /\ loads = [a \in Artifacts |-> 0]
    /\ widget = NoFile /\ uploaded_file = NoFile
    /\ text = Unassigned /\ resume_text = Unassigned
    /\ calls = <<>> /\ errors = <<>> /\ warnings = <<>> /\ rendered = <<>>
    /\ exc = None

\* Streamlit runs the script from its first line in a fresh namespace
StartRun ==
    /\ runs < MaxRuns
    /\ runs' = runs + 1
    /\ pc' = LoadPc[1]
    /\ models' = {}
    /\ uploaded_file' = NoFile
    /\ text' = Unassigned /\ resume_text' = Unassigned
    /\ calls' = <<>> /\ errors' = <<>> /\ warnings' = <<>> /\ rendered' = <<>>
    /\ exc' = None
    /\ UNCHANGED <<arg, ret, op, reBuild, disk, loads>>

\* a browser opens (or reloads) the page: a new session, its uploader empty
PageLoad ==
    /\ pc \in Ended \cup {"idle"}
    /\ widget' = NoFile
    /\ StartRun

\* the user puts a file in the uploader the last run showed, or clears it
Upload(f) ==
    /\ pc \in {"done", "aborted"}
    /\ widget' = f
    /\ StartRun

\* between two runs a file of models/ is removed
RemoveArtifact(a) ==
    /\ pc \in Ended
    /\ runs < MaxRuns
    /\ a \in disk
    /\ disk' = disk \ {a}
    /\ UNCHANGED <<arg, ret, op, reBuild, runs, pc, models, loads, widget,
                   uploaded_file, text, resume_text, calls, errors, warnings,
                   rendered, exc>>

\* load_model reporting a missing file and returning None, without st.stop()
load_model_returns_none(k) ==
    /\ pc = LoadPc[k]
    /\ IF artifact_files[k] \notin disk
       THEN /\ errors' = Append(errors, [msg |-> "File not found",
                                         path |-> artifact_files[k]])
            /\ UNCHANGED <<models, loads>>
       ELSE /\ loads' = [loads EXCEPT ![artifact_files[k]] = @ + 1]
            /\ models' = models \cup {artifact_files[k]}
            /\ UNCHANGED errors
    /\ pc' = IF k < Len(LoadPc) THEN LoadPc[k + 1] ELSE "file_uploader"
    /\ UNCHANGED <<arg, ret, op, reBuild, disk, runs, widget, uploaded_file,
                   text, resume_text, calls, warnings, rendered, exc>>

\* lines 10-17, called at lines 20-23
load_model(k) ==
    /\ pc = LoadPc[k]
    /\ IF artifact_files[k] \notin disk
       THEN /\ errors' = Append(errors, [msg |-> "File not found",
                                         path |-> artifact_files[k]])
            /\ pc' = "stopped"
            /\ UNCHANGED <<models, loads>>
       ELSE /\ loads' = [loads EXCEPT ![artifact_files[k]] = @ + 1]
            /\ models' = models \cup {artifact_files[k]}
            /\ pc' = IF k < Len(LoadPc) THEN LoadPc[k + 1] ELSE "file_uploader"
            /\ UNCHANGED errors
    /\ UNCHANGED <<arg, ret, op, reBuild, disk, runs, widget, uploaded_file,
                   text, resume_text, calls, warnings, rendered, exc>>

\* lines 89-130
file_uploader ==
    /\ pc = "file_uploader"
    /\ uploaded_file' = widget
    /\ pc' = IF widget = NoFile THEN "done" ELSE "read"
    /\ UNCHANGED <<arg, ret, op, reBuild, disk, runs, models, loads, widget,
                   text, resume_text, calls, errors, warnings, rendered, exc>>

\* pdf_to_text without its try/except
pdf_to_text_uncaught(file) ==
    IF file.readable
    THEN [value |-> file.content, reported |-> <<>>, raised |-> None]
    ELSE [value |-> Unassigned, reported |-> <<>>, raised |-> "PDFSyntaxError"]

\* lines 38-43: the value returned and the message reported
pdf_to_text(file) ==
    IF file.readable
    THEN [value |-> file.content, reported |-> <<>>, raised |-> None]
    ELSE [value |-> <<>>, reported |-> <<[msg |-> "Error reading PDF"]>>,
          raised |-> None]

\* line 135
read_decode(file) ==
    IF file.readable
    THEN [value |-> file.content, reported |-> <<>>, raised |-> None]
    ELSE [value |-> Unassigned, reported |-> <<>>,
          raised |-> "UnicodeDecodeError"]

\* lines 132-135
ReadText ==
    /\ pc = "read"
    /\ LET r == IF endswith(uploaded_file.name, <<".","p","d","f">>)
                THEN pdf_to_text(uploaded_file)
                ELSE read_decode(uploaded_file)
       IN  /\ errors' = errors \o r.reported
           /\ exc' = r.raised
           /\ text' = r.value
           /\ pc' = IF r.raised = None THEN "check" ELSE "aborted"
    /\ UNCHANGED <<arg, ret, op, reBuild, disk, runs, models, loads, widget,
                   uploaded_file, resume_text, calls, warnings, rendered>>

\* the test of line 137 without the strip
CheckText_no_strip ==
    /\ pc = "check"
    /\ IF text = <<>>
       THEN /\ warnings' = Append(warnings, "Could not extract text from this file")
            /\ pc' = "done"
       ELSE /\ pc' = "predict_category"
            /\ UNCHANGED warnings
    /\ UNCHANGED <<arg, ret, op, reBuild, disk, runs, models, loads, widget,
                   uploaded_file, text, resume_text, calls, errors, rendered,
                   exc>>

\* lines 137-139
CheckText ==
    /\ pc = "check"
    /\ IF strip(text) = <<>>
       THEN /\ warnings' = Append(warnings, "Could not extract text from this file")
            /\ pc' = "done"
       ELSE /\ pc' = "predict_category"
            /\ UNCHANGED warnings
    /\ UNCHANGED <<arg, ret, op, reBuild, disk, runs, models, loads, widget,
                   uploaded_file, text, resume_text, calls, errors, rendered,
                   exc>>

\* One of the two inference pipelines, lines 76-84, called at lines 141-142:
\* the text is normalized into the function's local, then handed to the
\* vectorizer and the classifier, which return a label or raise.
Predict(here, fn, vectorizer, classifier, next) ==
    /\ pc = here
    /\ calls' = Append(calls, [fn |-> fn, text |-> text])
    /\ resume_text' = cleanResume(text)
    /\ IF {vectorizer, classifier} \subseteq models
       THEN \E raises \in BOOLEAN :
               /\ exc' = IF raises THEN "model error" ELSE None
               /\ pc' = IF raises THEN "aborted" ELSE next
       ELSE /\ exc' = "AttributeError"
            /\ pc' = "aborted"
    /\ UNCHANGED <<arg, ret, op, reBuild, disk, runs, models, loads, widget,
                   uploaded_file, text, errors, warnings, rendered>>

\* the category put on the page as soon as it is predicted
predict_category_displayed_at_once ==
    /\ pc = "predict_category"
    /\ calls' = Append(calls, [fn |-> "predict_category", text |-> text])
    /\ resume_text' = cleanResume(text)
    /\ \E raises \in BOOLEAN :
          /\ exc' = IF raises THEN "model error" ELSE None
          /\ pc' = IF raises THEN "aborted" ELSE "recommend_job"
          /\ rendered' = IF raises THEN rendered ELSE rendered \o <<"category">>
    /\ UNCHANGED <<arg, ret, op, reBuild, disk, runs, models, loads, widget,
                   uploaded_file, text, errors, warnings>>

predict_category ==
    Predict("predict_category", "predict_category", artifact_files[2],
            artifact_files[1], "recommend_job")

recommend_job ==
    Predict("recommend_job", "recommend_job", artifact_files[4],
            artifact_files[3], "extract_name")

\* One of the extractors of lines 143-147.  raised: the exception the call
\* raises, None when it returns.
Extract(here, fn, raised, next) ==
    /\ pc = here
    /\ calls' = Append(calls, [fn |-> fn, text |-> text])
    /\ exc' = raised
    /\ pc' = IF raised = None THEN next ELSE "aborted"
    /\ UNCHANGED <<arg, ret, op, reBuild, disk, runs, models, loads, widget,
                   uploaded_file, text, resume_text, errors, warnings,
                   rendered>>

\* Lines 143-145 call extract_name, extract_email and extract_contact_number:
\* each pattern compiles on every build and re.search returns, so the call
\* returns; the value it returns is not part of the state modelled.
ExtractName == Extract("extract_name", "extract_name", None, "extract_email")

ExtractEmail ==
    Extract("extract_email", "extract_email", None, "extract_contact_number")

ExtractContactNumber ==
    Extract("extract_contact_number", "extract_contact_number", None,
            "extract_skills")

\* line 146
ExtractSkills ==
    Extract("extract_skills", "extract_skills",
            extract_skills(reBuild, text).raised, "extract_education")

\* line 147: extract_education returns for every text
ExtractEducation ==
    Extract("extract_education", "extract_education", None, "render")

\* lines 150-158
display_order == <<"category", "job", "name", "phone", "email", "skills",
                   "education">>

Render ==
    /\ pc = "render"
    /\ rendered' = rendered \o display_order
    /\ pc' = "done"
    /\ UNCHANGED <<arg, ret, op, reBuild, disk, runs, models, loads, widget,
                   uploaded_file, text, resume_text, calls, errors, warnings,
                   exc>>

Next ==
    \/ PageLoad
    \/ \E f \in Files \cup {NoFile} : Upload(f)
    \/ \E a \in Artifacts : RemoveArtifact(a)
    \/ \E k \in 1..Len(LoadPc) : load_model(k)
    \/ file_uploader
    \/ ReadText
    \/ CheckText
    \/ predict_category
    \/ recommend_job
    \/ ExtractName
    \/ ExtractEmail
    \/ ExtractContactNumber
    \/ ExtractSkills
    \/ ExtractEducation
    \/ Render

Spec == Init /\ [][Next]_vars

-----------------------------------------------------------------------------
(* Properties                                                              *)

Blank(t) == \A i \in 1..Len(t) : t[i] \in Whitespace

IsPdfName(name) == endswith(name, <<".","p","d","f">>)

Count(fn) == Cardinality({i \in 1..Len(calls) : calls[i].fn = fn})

\* C1: once the loaded text is empty or all whitespace, from either branch,
\* the run makes no prediction or extractor call and renders no field; it is
\* at the test of line 137 with no warning yet, or has ended with exactly one.
C1_BlankTextSkipsPipeline ==
    (text # Unassigned /\ Blank(text)) =>
        /\ pc \in {"check", "done"}
        /\ calls = <<>>
        /\ rendered = <<>>
        /\ Len(warnings) = (IF pc = "done" THEN 1 ELSE 0)

\* a whitespace-only text file has been handled
C1_Witness ==
    /\ pc = "done"
    /\ ~IsPdfName(uploaded_file.name)
    /\ text = <<"\n">>
    /\ Len(warnings) = 1

\* C2: a run started with an artifact missing stays at the load_model calls
\* until it is stopped there with the path reported: it never gets to the
\* uploader, accepts no upload, predicts nothing and renders nothing.  (disk
\* does not change during a run, and a run gets past line 128 only through
\* pc = "file_uploader".)
C2_MissingArtifactHalts ==
    /\ (disk # Artifacts /\ pc \notin Ended \cup {"idle"}) =>
            /\ pc \in Range(LoadPc)
            /\ \A k \in 1..Len(LoadPc) :
                   pc = LoadPc[k] => \A j \in 1..(k - 1) : artifact_files[j] \in disk
    /\ pc \in Range(LoadPc) \cup {"stopped"} =>
            /\ uploaded_file = NoFile
            /\ text = Unassigned
            /\ calls = <<>>
            /\ rendered = <<>>
    /\ pc = "stopped" =>
            /\ Len(errors) = 1
            /\ errors[1].msg = "File not found"
            /\ errors[1].path \notin disk

\* an upload is waiting in the widget and the run has stopped at load_model
C2_Witness ==
    /\ pc = "stopped"
    /\ widget # NoFile
    /\ uploaded_file = NoFile
    /\ Len(errors) = 1

\* C3: after the loader has handled a .pdf upload whose extraction fails, the
\* error is reported inline, the text is the empty string, no exception has
\* left the request, and the request is in the empty-text branch: no call,
\* no field, and the warning once the run has ended.
C3_PdfFailureBecomesEmptyText ==
    (IsPdfName(uploaded_file.name) /\ ~uploaded_file.readable /\ pc # "read") =>
        /\ text = <<>>
        /\ errors = <<[msg |-> "Error reading PDF"]>>
        /\ exc = None
        /\ pc \in {"check", "done"}
        /\ calls = <<>>
        /\ rendered = <<>>
        /\ (pc = "done" => Len(warnings) = 1)

C3_Witness ==
    /\ IsPdfName(uploaded_file.name)
    /\ ~uploaded_file.readable
    /\ pc = "done"
    /\ Len(errors) = 1
    /\ Len(warnings) = 1

\* C4: when a vectorizer or classifier has raised, the run is aborted with
\* no field rendered, and neither prediction was called a second time.
C4_ModelFailureAborts ==
    /\ exc = "model error" =>
            /\ pc = "aborted"
            /\ rendered = <<>>
            /\ warnings = <<>>
    /\ Count("predict_category") <= 1
    /\ Count("recommend_job") <= 1

\* the job recommendation failed after the category was computed
C4_Witness ==
    /\ exc = "model error"
    /\ Len(calls) = 2
    /\ calls[2].fn = "recommend_job"

\* C5: normalizing the output of cleanResume again gives it back.
C5_Idempotent ==
    op = "cleanResume.cleanResume" => ret = arg

\* C6: no artifact is read from disk more than once by one process.
C6_LoadedOncePerProcess ==
    \A a \in Artifacts : loads[a] <= 1

\* term occurs in txt, letter case aside, with no word character next to it
\* on either side
OccursAsWord(term, txt) ==
    \E i \in 1..(Len(txt) - Len(term) + 1) :
        /\ \A j \in 1..Len(term) : LowerChar(txt[i + j - 1]) = LowerChar(term[j])
        /\ i = 1 \/ ~IsWordChar(txt[i - 1])
        /\ i + Len(term) > Len(txt) \/ ~IsWordChar(txt[i + Len(term)])

\* s lists the elements of full chosen by the index set chosen, in full's order
IsSelection(s, full, chosen) ==
    /\ Len(s) = Cardinality(chosen)
    /\ \A n \in 1..Len(s) :
          \E i \in chosen :
             /\ Cardinality({j \in chosen : j < i}) = n - 1
             /\ s[n] = full[i]

\* C7: what extract_skills returns is the vocabulary terms that occur in the
\* text as a whole word, in vocabulary order, and ["Not found"] exactly when
\* none does.  (Stated of the calls that return: on the build where the
\* pattern of "C++" is an error no call returns, which the claim excludes too.)
C7_SkillsAreTheWholeWordTerms ==
    (op = "extract_skills" /\ exc = None) =>
        LET present == {i \in 1..Len(skill_list) : OccursAsWord(skill_list[i], arg)}
        IN  /\ present = {} => ret = <<NotFound>>
            /\ present # {} => IsSelection(ret, skill_list, present)

\* the positions of the newlines of txt, and its k-th line between them
Newlines(txt) == {i \in 1..Len(txt) : txt[i] = "\n"}

NthNewline(txt, k) ==
    IF k = 0 THEN 0
    ELSE IF k > Cardinality(Newlines(txt)) THEN Len(txt) + 1
    ELSE CHOOSE i \in Newlines(txt) :
             Cardinality({j \in Newlines(txt) : j < i}) = k - 1

Line(txt, k) == SubSeq(txt, NthNewline(txt, k - 1) + 1, NthNewline(txt, k) - 1)

HasKeyword(line) ==
    \E k \in 1..Len(edu_keywords) :
        \E i \in 1..(Len(line) - Len(edu_keywords[k]) + 1) :
            \A j \in 1..Len(edu_keywords[k]) :
                LowerChar(line[i + j - 1]) = LowerChar(edu_keywords[k][j])

\* t is line without the whitespace at its two ends
IsTrimOf(t, line) ==
    /\ t = <<>> \/ (t[1] \notin Whitespace /\ t[Len(t)] \notin Whitespace)
    /\ \E a \in 0..Len(line) :
          /\ a + Len(t) <= Len(line)
          /\ SubSeq(line, a + 1, a + Len(t)) = t
          /\ \A i \in (1..a) \cup ((a + Len(t) + 1)..Len(line)) :
                line[i] \in Whitespace

\* C8: extract_education returns the trimmed qualifying lines, one per
\* occurrence and in the order of the text, and ["Not found"] exactly when no
\* line holds a keyword.
C8_EducationIsTheKeywordLines ==
    op = "extract_education" =>
        LET n == Cardinality(Newlines(arg)) + 1
            qualifying == {k \in 1..n : HasKeyword(Line(arg, k))}
        IN  /\ (ret = <<NotFound>>) <=> (qualifying = {})
            /\ qualifying # {} =>
                  /\ Len(ret) = Cardinality(qualifying)
                  /\ \A m \in 1..Len(ret) :
                        \E k \in qualifying :
                           /\ Cardinality({j \in qualifying : j < k}) = m - 1
                           /\ IsTrimOf(ret[m], Line(arg, k))

\* a qualifying line occurs twice and is returned twice
C8_Witness ==
    /\ op = "extract_education"
    /\ arg = <<"p","h","d","\n","p","h","d">>
    /\ ret = << <<"p","h","d">>, <<"p","h","d">> >>

\* C9: a run with text to work on and no model failure ends having called
\* both predictions and the five extractors once each on the loader's text,
\* and having rendered the seven fields in display order, with no warning.
C9_SevenCallsSevenFields ==
    (pc \in Ended /\ text # Unassigned /\ ~Blank(text) /\ exc # "model error") =>
        /\ Len(calls) = 7
        /\ \A fn \in {"predict_category", "recommend_job", "extract_name",
                      "extract_email", "extract_contact_number",
                      "extract_skills", "extract_education"} : Count(fn) = 1
        /\ \A i \in 1..Len(calls) : calls[i].text = uploaded_file.content
        /\ text = uploaded_file.content
        /\ rendered = display_order
        /\ warnings = <<>>

\* C10: the output of cleanResume holds no punctuation, no non-ASCII
\* character, no "RT", no "cc", and no whitespace but single spaces.
C10_OutputIsClean ==
    op \in {"cleanResume", "cleanResume.cleanResume"} =>
        /\ \A i \in 1..Len(ret) :
              /\ ret[i] \notin Punctuation
              /\ ret[i] \in Ascii
              /\ ret[i] \in Whitespace => ret[i] = " "
        /\ \A i \in 1..(Len(ret) - 1) :
              /\ ~(ret[i] = " " /\ ret[i + 1] = " ")
              /\ ~(ret[i] = "R" /\ ret[i + 1] = "T")
              /\ ~(ret[i] = "c" /\ ret[i + 1] = "c")

\* the punctuation between "R" and "T" has become a space, not nothing
C10_Witness ==
    /\ op = "cleanResume"
    /\ arg = <<"R", ".", "T">>
    /\ ret = <<"R", " ", "T">>

====
